---------------------------- MODULE Spec2Model ----------------------------
(***************************************************************************)
(* A model of biomedical_qa/tfutil.py: tensor helper functions written on  *)
(* top of TensorFlow.  A tensor is a record [shape, data]: `shape` is the   *)
(* sequence of dimension sizes and `data` the row-major buffer, which is    *)
(* how the runtime stores it.  Indices are 0-based as in the code; only the *)
(* position in a TLA+ sequence is 1-based.                                  *)
(*                                                                         *)
(* Every function of the module is pure, so a behaviour is: the arguments   *)
(* are chosen (Init), then one function is called on them (an action) and   *)
(* its outcome recorded in `result`.                                        *)
(***************************************************************************)
EXTENDS Integers, Sequences, FiniteSets

VARIABLES args, pc, result

vars == <<args, pc, result>>

---------------------------------------------------------------------------
(* Bounds of the explored inputs.                                          *)

\* largest size of one dimension of an indexed / gathered tensor
MaxDim == 3
\* first value of the row-major numbering used to fill such a tensor
MaxStart == 1
\* largest number of indices handed to gather_in_dim
MaxIdxLen == 2
\* largest number of entries of the lengths vector of mask_for_lengths
MaxBatch == 2
\* largest sequence length, and largest max_length, of mask_for_lengths
MaxLength == 4
\* largest numbers of rows, columns and cells of a scores matrix
MaxRows == 3
MaxCols == 3
MaxCells == 6
\* scores range over -1..MaxScore
MaxScore == 0
\* partition ids range over 0..MaxId
MaxId == 2

---------------------------------------------------------------------------
(* Tensors and the runtime primitives the module calls.                    *)

Tensor(shape, data) == [shape |-> shape, data |-> data]

Scalar(v) == Tensor(<<>>, <<v>>)

Vector(seq) == Tensor(<<Len(seq)>>, seq)

Rank(t) == Len(t.shape)

RECURSIVE Prod(_)
Prod(s) == IF Len(s) = 0 THEN 1 ELSE Head(s) * Prod(Tail(s))

\* row-major offset of the 0-based coordinates idx in a tensor of this shape
RECURSIVE Offset(_, _)
Offset(shape, idx) ==
    IF Len(shape) = 0 THEN 0
    ELSE idx[1] * Prod(Tail(shape)) + Offset(Tail(shape), Tail(idx))

\* the 0-based coordinates of row-major offset off
RECURSIVE Unravel(_, _)
Unravel(shape, off) ==
    IF Len(shape) = 0 THEN <<>>
    ELSE LET p == Prod(Tail(shape))
         IN  <<off \div p>> \o Unravel(Tail(shape), off % p)

At(t, idx) == t.data[Offset(t.shape, idx) + 1]

\* a tensor of the given shape filled with start, start+1, ... in row-major order
Iota(shape, start) == Tensor(shape, [k \in 1..Prod(shape) |-> start + k - 1])

tf_range(start, limit) ==
    Vector([k \in 1..(IF limit > start THEN limit - start ELSE 0) |-> start + k - 1])

\* tf.reshape with at most one -1 entry, which is inferred from the element count
tf_reshape(t, shape) ==
    LET known == Prod([i \in 1..Len(shape) |-> IF shape[i] = -1 THEN 1 ELSE shape[i]])
        missing == Len(t.data) \div known
    IN  Tensor([i \in 1..Len(shape) |-> IF shape[i] = -1 THEN missing ELSE shape[i]],
               t.data)

\* tf.gather: slices of params along dimension 0, one per entry of indices
tf_gather(params, indices) ==
    LET ss == Prod(Tail(params.shape))
    IN  Tensor(indices.shape \o Tail(params.shape),
               [k \in 1..(Len(indices.data) * ss) |->
                   params.data[indices.data[((k - 1) \div ss) + 1] * ss
                               + ((k - 1) % ss) + 1]])

\* tf.transpose: dimension i of the result is dimension perm[i] of t
tf_transpose(t, perm) ==
    LET r == Len(perm)
        shape == [i \in 1..r |-> t.shape[perm[i] + 1]]
        src(idx) == [d \in 1..r |-> idx[CHOOSE i \in 1..r : perm[i] + 1 = d]]
    IN  Tensor(shape, [k \in 1..Prod(shape) |-> At(t, src(Unravel(shape, k - 1)))])

\* tf.slice: the block of the given size starting at begin
tf_slice(t, begin, size) ==
    Tensor(size, [k \in 1..Prod(size) |->
                     LET idx == Unravel(size, k - 1)
                     IN  At(t, [d \in 1..Len(size) |-> begin[d] + idx[d]])])

RECURSIVE DropOnes(_)
DropOnes(s) ==
    IF Len(s) = 0 THEN <<>>
    ELSE (IF Head(s) = 1 THEN <<>> ELSE <<Head(s)>>) \o DropOnes(Tail(s))

\* tf.squeeze without axis: every dimension of size 1 is removed
tf_squeeze(t) == Tensor(DropOnes(t.shape), t.data)

\* tf.squeeze(t, [axis]): the named dimension (of size 1) is removed
tf_squeeze_axis(t, axis) ==
    Tensor(SubSeq(t.shape, 1, axis) \o SubSeq(t.shape, axis + 2, Len(t.shape)), t.data)

\* tf.expand_dims(t, axis): a dimension of size 1 is inserted at axis
tf_expand_dims(t, axis) ==
    Tensor(SubSeq(t.shape, 1, axis) \o <<1>> \o SubSeq(t.shape, axis + 1, Len(t.shape)),
           t.data)

\* tf.pack: same-shaped tensors stacked along a new dimension 0
RECURSIVE ConcatData(_)
ConcatData(ts) == IF Len(ts) = 0 THEN <<>> ELSE Head(ts).data \o ConcatData(Tail(ts))

tf_pack(ts) == Tensor(<<Len(ts)>> \o ts[1].shape, ConcatData(ts))

\* tf.transpose without perm: the dimensions are reversed
tf_transpose_default(t) ==
    tf_transpose(t, [i \in 1..Rank(t) |-> Rank(t) - i])

\* tf.gather_nd: the last dimension of indices holds coordinates into the
\* leading dimensions of params
tf_gather_nd(params, indices) ==
    LET K == indices.shape[Len(indices.shape)]
        lead == SubSeq(params.shape, 1, K)
        rest == SubSeq(params.shape, K + 1, Len(params.shape))
        ss == Prod(rest)
        outer == SubSeq(indices.shape, 1, Len(indices.shape) - 1)
    IN  Tensor(outer \o rest,
               [k \in 1..(Prod(outer) * ss) |->
                   LET which == (k - 1) \div ss
                       coord == SubSeq(indices.data, which * K + 1, which * K + K)
                   IN  params.data[Offset(lead, coord) * ss + ((k - 1) % ss) + 1]])

\* tf.cast between int32 and int64: the value is kept when it fits the target
\* type, which every index of the explored inputs does (at most MaxDim)
tf_cast_int(t) == Tensor(t.shape, [k \in 1..Len(t.data) |-> t.data[k]])

\* tf.tile of a vector: its entries repeated `multiple` times
RECURSIVE Repeat(_, _)
Repeat(seq, n) == IF n = 0 THEN <<>> ELSE seq \o Repeat(seq, n - 1)

tf_tile(t, multiple) == Vector(Repeat(t.data, multiple))

\* broadcasting of elementwise binary operations: shapes are aligned at the
\* last dimension and a dimension of size 1 is stretched
PadShape(shape, r) == [i \in 1..(r - Len(shape)) |-> 1] \o shape

MaxOf(a, b) == IF a >= b THEN a ELSE b

Broadcastable(sa, sb) ==
    LET r == MaxOf(Len(sa), Len(sb))
        a == PadShape(sa, r)
        b == PadShape(sb, r)
    IN  \A i \in 1..r : a[i] = b[i] \/ a[i] = 1 \/ b[i] = 1

BroadcastShape(sa, sb) ==
    LET r == MaxOf(Len(sa), Len(sb))
        a == PadShape(sa, r)
        b == PadShape(sb, r)
    IN  [i \in 1..r |-> IF a[i] = 1 THEN b[i] ELSE a[i]]

\* the element of t that coordinates idx of the broadcast result read
BroadcastAt(t, idx) ==
    LET r == Len(idx)
        sh == PadShape(t.shape, r)
        own == [i \in 1..r |-> IF sh[i] = 1 THEN 0 ELSE idx[i]]
    IN  t.data[Offset(sh, own) + 1]

Elementwise(Op(_, _), a, b) ==
    LET shape == BroadcastShape(a.shape, b.shape)
    IN  Tensor(shape, [k \in 1..Prod(shape) |->
                          LET idx == Unravel(shape, k - 1)
                          IN  Op(BroadcastAt(a, idx), BroadcastAt(b, idx))])

MapTensor(F(_), t) == Tensor(t.shape, [k \in 1..Len(t.data) |-> F(t.data[k])])

RECURSIVE MaxSeq(_)
MaxSeq(seq) ==
    IF Len(seq) = 1 THEN seq[1] ELSE MaxOf(Head(seq), MaxSeq(Tail(seq)))

\* tf.reduce_max over all elements
tf_reduce_max_all(t) == MaxSeq(t.data)

\* tf.cast of a boolean tensor to a number type: True is 1, False is 0
tf_cast_bool(t) == MapTensor(LAMBDA x : IF x THEN 1 ELSE 0, t)

\* row i (0-based) of a matrix, as a sequence
Row(t, i) == SubSeq(t.data, i * t.shape[2] + 1, (i + 1) * t.shape[2])

\* tf.reduce_max(t, axis=1) of a matrix
tf_reduce_max_rows(t) == Vector([i \in 1..t.shape[1] |-> MaxSeq(Row(t, i - 1))])

\* tf.reduce_any(t, axis=1) of a boolean matrix
tf_reduce_any_rows(t) ==
    Vector([i \in 1..t.shape[1] |-> \E j \in 1..t.shape[2] : Row(t, i - 1)[j]])

RECURSIVE SumSeq(_)
SumSeq(seq) == IF Len(seq) = 0 THEN 0 ELSE Head(seq) + SumSeq(Tail(seq))

\* tf.reduce_sum over all elements of an integer tensor
tf_reduce_sum_all(t) == SumSeq(t.data)

\* the positions (1-based) of a sorted segment_ids vector that hold id g
Segment(ids, g) == { i \in 1..Len(ids) : ids[i] = g }

\* number of output segments of a segment reduction: last id + 1
NumSegments(ids) == ids[Len(ids)] + 1

\* tf.segment_max over a vector; a segment no row belongs to yields 0
tf_segment_max(data, segment_ids) ==
    Vector([g \in 1..NumSegments(segment_ids.data) |->
              LET rows == Segment(segment_ids.data, g - 1)
              IN  IF rows = {} THEN 0
                  ELSE CHOOSE v \in { data.data[i] : i \in rows } :
                           \A i \in rows : data.data[i] <= v])

\* tf.where of a boolean vector: a [k, 1] matrix of the positions of True
RECURSIVE TruePositions(_, _)
TruePositions(seq, from) ==
    IF Len(seq) = 0 THEN <<>>
    ELSE (IF Head(seq) THEN <<from>> ELSE <<>>) \o TruePositions(Tail(seq), from + 1)

tf_where(t) ==
    LET pos == TruePositions(t.data, 0)
    IN  Tensor(<<Len(pos), 1>>, pos)

\* tf.argmax(t, axis=1) of a matrix: the first position of each row's maximum
tf_argmax_rows(t) ==
    Vector([i \in 1..t.shape[1] |->
              LET row == Row(t, i - 1)
              IN  (CHOOSE j \in 1..Len(row) :
                      /\ row[j] = MaxSeq(row)
                      /\ \A k \in 1..(j - 1) : row[k] < row[j]) - 1])

(***************************************************************************)
(* Exact arithmetic for softmax.  Scores are integers; exp is taken to the *)
(* rational base ExpBase, so that every exponential, sum and quotient is a *)
(* fraction <<numerator, denominator>> in lowest terms and no rounding     *)
(* takes place.                                                            *)
(***************************************************************************)
ExpBase == 2

RECURSIVE Gcd(_, _)
Gcd(a, b) == IF b = 0 THEN a ELSE Gcd(b, a % b)

Frac(n, d) == LET g == Gcd(n, d) IN <<n \div g, d \div g>>

FracAdd(x, y) == Frac(x[1] * y[2] + y[1] * x[2], x[2] * y[2])

FracDiv(x, y) == Frac(x[1] * y[2], x[2] * y[1])

RECURSIVE FracSum(_)
FracSum(seq) == IF Len(seq) = 0 THEN <<0, 1>> ELSE FracAdd(Head(seq), FracSum(Tail(seq)))

\* tf.exp
tf_exp(t) ==
    MapTensor(LAMBDA x : IF x >= 0 THEN <<ExpBase ^ x, 1>> ELSE <<1, ExpBase ^ (0 - x)>>, t)

\* tf.reduce_sum(t, axis=1) of a matrix of fractions
tf_reduce_sum_rows(t) == Vector([i \in 1..t.shape[1] |-> FracSum(Row(t, i - 1))])

\* tf.segment_sum over a vector of fractions; an empty segment yields 0
tf_segment_sum(data, segment_ids) ==
    LET ids == segment_ids.data
        upto[i \in 0..Len(ids)] ==
            IF i = 0 THEN [g \in 1..NumSegments(ids) |-> <<0, 1>>]
            ELSE [upto[i - 1] EXCEPT ![ids[i] + 1] = FracAdd(@, data.data[i])]
    IN  Vector(upto[Len(ids)])

---------------------------------------------------------------------------
(* Outcomes of a call.                                                     *)

Pending == [fn |-> "none", status |-> "pending", value |-> <<>>]

Ok(fn, tensors) == [fn |-> fn, status |-> "ok", value |-> tensors]

Failed(fn, why) == [fn |-> fn, status |-> why, value |-> <<>>]

---------------------------------------------------------------------------
(* get_by_index and get_last                                               *)

\* get_by_index without the row offset range(0, dim1) * dim2
get_by_index_no_row_offset(tensor, index) ==
    LET dim3 == tensor.shape[3]
        flat_index == Vector([i \in 1..Len(index.data) |-> index.data[i] - 1])
    IN  tf_gather(tf_reshape(tensor, <<-1, dim3>>), flat_index)

get_by_index(tensor, index) ==
    LET dim1 == tensor.shape[1]
        dim2 == tensor.shape[2]
        dim3 == tensor.shape[3]
        rng == tf_range(0, dim1)
        flat_index == Vector([i \in 1..Len(rng.data) |->
                                 rng.data[i] * dim2 + (index.data[i] - 1)])
    IN  tf_gather(tf_reshape(tensor, <<-1, dim3>>), flat_index)

\* get_last with the slice starting at position 0 of dimension 2
get_last_from_first(tensor) ==
    LET shape == tensor.shape
        slice_size == <<shape[1], 1, shape[3]>>
    IN  tf_squeeze_axis(tf_slice(tensor, <<0, 0, 0>>, slice_size), 1)

get_last(tensor) ==
    LET shape == tensor.shape
        mul(a, b) == [i \in 1..3 |-> a[i] * b[i]]
        add(a, b) == [i \in 1..3 |-> a[i] + b[i]]
        slice_size == add(mul(shape, <<1, 0, 1>>), <<0, 1, 0>>)
        slice_begin == add(mul(shape, <<0, 1, 0>>), <<0, -1, 0>>)
    IN  tf_squeeze_axis(tf_slice(tensor, slice_begin, slice_size), 1)

Dims == 1..MaxDim

\* [d1, d2, d3] tensors with a vector of d1 one-based positions in dimension 2
IndexInputs ==
    UNION { { [tensor |-> Iota(<<d1, d2, d3>>, s), index |-> Vector(ix)] :
                ix \in [1..d1 -> 1..d2] } :
            <<d1, d2, d3, s>> \in Dims \X Dims \X Dims \X (0..MaxStart) }

InitIndex ==
    /\ args \in IndexInputs
    /\ pc = "ready"
    /\ result = Pending

GetByIndex ==
    /\ pc = "ready"
    /\ result' = Ok("get_by_index", <<get_by_index(args.tensor, args.index)>>)
    /\ pc' = "done"
    /\ UNCHANGED args

GetLast ==
    /\ pc = "ready"
    /\ result' = Ok("get_last", <<get_last(args.tensor)>>)
    /\ pc' = "done"
    /\ UNCHANGED args

NextIndex == GetByIndex \/ GetLast

SpecIndex == InitIndex /\ [][NextIndex]_vars

\* C5: get_by_index(tensor, index) has shape [d1, d3] and its row i is
\* tensor[i, index[i]-1], for every index vector with entries in [1, d2].
C5_GetByIndexSelectsRow ==
    (pc = "done" /\ result.fn = "get_by_index") =>
        LET t == args.tensor
            out == result.value[1]
        IN  /\ result.status = "ok"
            /\ out.shape = <<t.shape[1], t.shape[3]>>
            /\ \A i \in 0..(t.shape[1] - 1) : \A k \in 0..(t.shape[3] - 1) :
                   At(out, <<i, k>>) = At(t, <<i, args.index.data[i + 1] - 1, k>>)

C5_Witness ==
    /\ pc = "done"
    /\ result.fn = "get_by_index"
    /\ args.tensor.shape = <<MaxDim, MaxDim, 2>>
    /\ args.index.data[1] = MaxDim
    /\ args.index.data[2] = 1

\* C8: for d2 >= 1, get_last(tensor) has shape [d1, d3], its row i is
\* tensor[i, d2-1], and it equals get_by_index(tensor, index) with every
\* index[i] = d2.
C8_GetLastIsLastSlice ==
    (pc = "done" /\ result.fn = "get_last") =>
        LET t == args.tensor
            out == result.value[1]
            d2 == t.shape[2]
        IN  /\ result.status = "ok"
            /\ out.shape = <<t.shape[1], t.shape[3]>>
            /\ \A i \in 0..(t.shape[1] - 1) : \A k \in 0..(t.shape[3] - 1) :
                   At(out, <<i, k>>) = At(t, <<i, d2 - 1, k>>)
            /\ out = get_by_index(t, Vector([i \in 1..t.shape[1] |-> d2]))

C8_Witness ==
    /\ pc = "done"
    /\ result.fn = "get_last"
    /\ args.tensor.shape = <<2, MaxDim, 2>>
    /\ result.value[1].data[1] = args.tensor.data[2 * MaxDim - 1]

---------------------------------------------------------------------------
(* gather_in_dim                                                           *)

\* gather_in_dim that returns the gathered tensor without transposing it back
gather_in_dim_not_reverted(params, indices, dim) ==
    IF dim = 0
    THEN tf_gather(params, indices)
    ELSE LET dims == [i \in 1..Rank(params) |-> i - 1]
             to_dims == [[dims EXCEPT ![1] = dim] EXCEPT ![dim + 1] = 0]
         IN  tf_gather(tf_transpose(params, to_dims), indices)

gather_in_dim(params, indices, dim) ==
    IF dim = 0
    THEN tf_gather(params, indices)
    ELSE LET dims == [i \in 1..Rank(params) |-> i - 1]
             to_dims == [[dims EXCEPT ![1] = dim] EXCEPT ![dim + 1] = 0]
             transposed == tf_transpose(params, to_dims)
             gathered == tf_gather(transposed, indices)
             reverted == tf_transpose(gathered, to_dims)
         IN  reverted

Shapes == (Dims \X Dims) \cup (Dims \X Dims \X Dims)

\* sequences over S of length 1..n
SeqsUpTo(S, n) == UNION { [1..l -> S] : l \in 1..n }

\* rank-2 and rank-3 params, a valid dimension, a vector of valid indices in it
GatherInputs ==
    UNION { { [params |-> Iota(sh, s), dim |-> d, indices |-> Vector(ix)] :
                ix \in SeqsUpTo(0..(sh[d + 1] - 1), MaxIdxLen) } :
            <<sh, d, s>> \in { x \in Shapes \X (0..2) \X (0..MaxStart) :
                                 x[2] < Len(x[1]) } }

InitGather ==
    /\ args \in GatherInputs
    /\ pc = "ready"
    /\ result = Pending

GatherInDim ==
    /\ pc = "ready"
    /\ result' = Ok("gather_in_dim",
                    <<gather_in_dim(args.params, args.indices, args.dim)>>)
    /\ pc' = "done"
    /\ UNCHANGED args

NextGather == GatherInDim

SpecGather == InitGather /\ [][NextGather]_vars

\* the permutation that exchanges dimensions 0 and dim of a rank-r tensor
SwapPerm(r, dim) == [i \in 1..r |-> IF i = 1 THEN dim ELSE IF i = dim + 1 THEN 0 ELSE i - 1]

\* C6: gather_in_dim(params, idx, dim) gathers along dim: the element at
\* coordinates c of the result is the element of params at c with c[dim]
\* replaced by idx[c[dim]]; it equals the dimension-0 gather of params with
\* dimensions 0 and dim swapped, swapped back; for dim = 0 it is tf.gather.
C6_GatherInDimGathersAlongDim ==
    (pc = "done" /\ result.fn = "gather_in_dim") =>
        LET p == args.params
            d == args.dim
            ix == args.indices.data
            out == result.value[1]
            sw == SwapPerm(Rank(p), d)
        IN  /\ out.shape = [p.shape EXCEPT ![d + 1] = Len(ix)]
            /\ \A k \in 1..Len(out.data) :
                   LET c == Unravel(out.shape, k - 1)
                   IN  out.data[k] = At(p, [c EXCEPT ![d + 1] = ix[c[d + 1] + 1]])
            /\ out = tf_transpose(tf_gather(tf_transpose(p, sw), args.indices), sw)
            /\ (d = 0 => out = tf_gather(p, args.indices))

C6_Witness ==
    /\ pc = "done"
    /\ result.fn = "gather_in_dim"
    /\ args.dim = 2
    /\ args.params.shape = <<2, MaxDim, MaxDim>>
    /\ args.indices.data = <<MaxDim - 1, 0>>
    /\ result.value[1].shape = <<2, MaxDim, 2>>

---------------------------------------------------------------------------
(* gather_rowwise_indices_1d and gather_rowwise_1d                         *)

\* gather_rowwise_indices_1d that pairs every column with row 0
gather_rowwise_indices_1d_row_zero(indices) ==
    LET rows == indices.shape[1]
        row_index == Vector([i \in 1..rows |-> 0])
    IN  tf_transpose_default(tf_pack(<<row_index, indices>>))

gather_rowwise_indices_1d(indices) ==
    LET rows == indices.shape[1]
        row_index == tf_cast_int(tf_range(0, rows))
        _indices == tf_transpose_default(tf_pack(<<row_index, indices>>))
    IN  _indices

gather_rowwise_1d(input, indices) ==
    tf_gather_nd(input, tf_cast_int(gather_rowwise_indices_1d(indices)))

\* [n, m] inputs with one valid column per row
RowwiseInputs ==
    UNION { { [input |-> Iota(<<n, m>>, s), indices |-> Vector(ix)] :
                ix \in [1..n -> 0..(m - 1)] } :
            <<n, m, s>> \in Dims \X Dims \X (0..MaxStart) }

InitRowwise ==
    /\ args \in RowwiseInputs
    /\ pc = "ready"
    /\ result = Pending

GatherRowwiseIndices1d ==
    /\ pc = "ready"
    /\ result' = Ok("gather_rowwise_indices_1d",
                    <<gather_rowwise_indices_1d(args.indices)>>)
    /\ pc' = "done"
    /\ UNCHANGED args

GatherRowwise1d ==
    /\ pc = "ready"
    /\ result' = Ok("gather_rowwise_1d", <<gather_rowwise_1d(args.input, args.indices)>>)
    /\ pc' = "done"
    /\ UNCHANGED args

NextRowwise == GatherRowwiseIndices1d \/ GatherRowwise1d

SpecRowwise == InitRowwise /\ [][NextRowwise]_vars

\* C7: gather_rowwise_1d(input, indices) is the length-n vector whose i-th
\* entry is input[i, indices[i]], and gather_rowwise_indices_1d builds the
\* [n, 2] pairs (i, indices[i]); [[1,2,3],[4,5,6]] with [2,0] gives [3,4].
C7_GatherRowwisePicksColumn ==
    /\ (pc = "done" /\ result.fn = "gather_rowwise_1d") =>
          LET n == args.input.shape[1]
              out == result.value[1]
          IN  /\ out.shape = <<n>>
              /\ \A i \in 0..(n - 1) :
                     out.data[i + 1] = At(args.input, <<i, args.indices.data[i + 1]>>)
              /\ (args.input = Tensor(<<2, 3>>, <<1, 2, 3, 4, 5, 6>>)
                    /\ args.indices.data = <<2, 0>>) => out.data = <<3, 4>>
    /\ (pc = "done" /\ result.fn = "gather_rowwise_indices_1d") =>
          LET n == args.indices.shape[1]
              out == result.value[1]
          IN  /\ out.shape = <<n, 2>>
              /\ \A i \in 0..(n - 1) :
                     /\ At(out, <<i, 0>>) = i
                     /\ At(out, <<i, 1>>) = args.indices.data[i + 1]

C7_Witness ==
    /\ pc = "done"
    /\ result.fn = "gather_rowwise_1d"
    /\ args.input = Tensor(<<2, 3>>, <<1, 2, 3, 4, 5, 6>>)
    /\ args.indices.data = <<2, 0>>
    /\ result.value[1].data = <<3, 4>>

---------------------------------------------------------------------------
(* mask_for_lengths                                                        *)
(* An omitted (None) argument is the empty sequence, a supplied one <<v>>.  *)

\* the default max_length taken as the number of lengths
default_max_length_as_count(lengths) == lengths.shape[1]

default_max_length(lengths) == tf_reduce_max_all(lengths)

default_batch_size(lengths) == lengths.shape[1]

\* the comparison with ">" in place of ">=" when masking to the right
compare_with_lengths_strict(mask, lengths, mask_right) ==
    IF mask_right
    THEN Elementwise(LAMBDA x, y : x > y, tf_cast_int(mask), tf_expand_dims(lengths, 1))
    ELSE Elementwise(LAMBDA x, y : x < y, tf_cast_int(mask), tf_expand_dims(lengths, 1))

compare_with_lengths(mask, lengths, mask_right) ==
    IF mask_right
    THEN Elementwise(LAMBDA x, y : x >= y, tf_cast_int(mask), tf_expand_dims(lengths, 1))
    ELSE Elementwise(LAMBDA x, y : x < y, tf_cast_int(mask), tf_expand_dims(lengths, 1))

mask_for_lengths(lengths, batch_size, max_length, mask_right, value) ==
    LET ml == IF max_length = <<>> THEN default_max_length(lengths) ELSE max_length[1]
        bs == IF batch_size = <<>> THEN default_batch_size(lengths) ELSE batch_size[1]
        grid == tf_reshape(tf_tile(tf_range(0, ml), bs), <<bs, -1>>)
    IN  IF ~Broadcastable(grid.shape, tf_expand_dims(lengths, 1).shape)
        THEN Failed("mask_for_lengths", "incompatible_shapes")
        ELSE Ok("mask_for_lengths",
                <<Elementwise(LAMBDA x, y : x * y,
                              tf_cast_bool(compare_with_lengths(grid, lengths, mask_right)),
                              Scalar(value))>>)

Optional(S) == {<<>>} \cup { <<v>> : v \in S }

MaskValues == {-1000, 0, 1}

MaskInputs ==
    [ lengths : { Vector(l) : l \in SeqsUpTo(0..MaxLength, MaxBatch) },
      batch_size : Optional(1..(MaxBatch + 1)),
      max_length : Optional(0..MaxLength),
      mask_right : BOOLEAN,
      value : MaskValues ]

InitMask ==
    /\ args \in MaskInputs
    /\ pc = "ready"
    /\ result = Pending

MaskForLengths ==
    /\ pc = "ready"
    /\ result' = mask_for_lengths(args.lengths, args.batch_size, args.max_length,
                                  args.mask_right, args.value)
    /\ pc' = "done"
    /\ UNCHANGED args

NextMask == MaskForLengths

SpecMask == InitMask /\ [][NextMask]_vars

MinOf(a, b) == IF a <= b THEN a ELSE b

\* the batch_size and max_length a call works with
EffBatch == IF args.batch_size = <<>> THEN Len(args.lengths.data) ELSE args.batch_size[1]

EffMaxLength ==
    IF args.max_length = <<>> THEN MaxSeq(args.lengths.data) ELSE args.max_length[1]

\* C4: entry (b, j) of the mask is `value` when j >= lengths[b] (mask_right)
\* resp. j < lengths[b] (not mask_right) and 0 otherwise, so the masks for
\* the two settings of mask_right are complementary; lengths=[2,4],
\* max_length=4, value=-1000, mask_right gives [[0,0,-1000,-1000],[0,0,0,0]].
C4_MaskEntries ==
    (pc = "done" /\ result.status = "ok") =>
        LET out == result.value[1]
            l == args.lengths.data
            other == mask_for_lengths(args.lengths, args.batch_size, args.max_length,
                                      ~args.mask_right, args.value).value[1]
        IN  /\ out.shape[2] = EffMaxLength
            /\ other.shape = out.shape
            /\ \A b \in 0..(MinOf(out.shape[1], Len(l)) - 1) :
                 \A j \in 0..(out.shape[2] - 1) :
                   LET active == IF args.mask_right THEN j >= l[b + 1] ELSE j < l[b + 1]
                   IN  /\ At(out, <<b, j>>) = IF active THEN args.value ELSE 0
                       /\ At(other, <<b, j>>) = IF active THEN 0 ELSE args.value
            /\ (l = <<2, 4>> /\ args.max_length = <<4>> /\ args.value = -1000
                  /\ args.mask_right /\ args.batch_size = <<>>)
                 => out = Tensor(<<2, 4>>, <<0, 0, -1000, -1000, 0, 0, 0, 0>>)

C4_Witness ==
    /\ pc = "done"
    /\ args.lengths.data = <<2, 4>>
    /\ args.max_length = <<4>>
    /\ args.batch_size = <<>>
    /\ args.value = -1000
    /\ args.mask_right
    /\ result.status = "ok"
    /\ result.value[1].data = <<0, 0, -1000, -1000, 0, 0, 0, 0>>

\* C9 as stated: for every lengths vector and every supplied or omitted
\* batch_size and max_length the mask has batch_size rows and max_length
\* columns.
C9_ShapeForEveryBatchSize ==
    pc = "done" =>
        /\ result.status = "ok"
        /\ result.value[1].shape = <<EffBatch, EffMaxLength>>

\* C9 amended: when batch_size is omitted, or equals the number of entries
\* of lengths, or lengths has a single entry, the mask has batch_size rows
\* and max_length columns (an omitted batch_size being the number of entries
\* of lengths, an omitted max_length the maximum of lengths).
C9_ShapeWhenBatchMatches ==
    (pc = "done" /\ (EffBatch = Len(args.lengths.data) \/ Len(args.lengths.data) = 1)) =>
        /\ result.status = "ok"
        /\ result.value[1].shape = <<EffBatch, EffMaxLength>>

C9_Witness ==
    /\ pc = "done"
    /\ args.batch_size = <<>>
    /\ args.max_length = <<>>
    /\ args.lengths.data = <<1, 3>>
    /\ result.status = "ok"
    /\ result.value[1].shape = <<2, 3>>

---------------------------------------------------------------------------
(* segment_softmax and segment_argmax                                      *)

\* the shift taken from each row's own maximum, without segment_max
softmax_shift_per_row(scores, partition) ==
    tf_expand_dims(tf_reduce_max_rows(scores), 1)

\* the value subtracted from every cell of each row
softmax_shift(scores, partition) ==
    LET max_per_partition == tf_segment_max(tf_reduce_max_rows(scores), partition)
    IN  tf_expand_dims(tf_gather(max_per_partition, partition), 1)

shifted_scores(scores, partition) ==
    Elementwise(LAMBDA x, y : x - y, scores, softmax_shift(scores, partition))

\* the divisor taken from each row's own sum, without segment_sum
softmax_divisor_per_row(scores_exp, partition) ==
    tf_expand_dims(tf_reduce_sum_rows(scores_exp), 1)

\* the value every cell of each row is divided by
softmax_divisor(scores_exp, partition) ==
    LET scores_exp_sum_per_partition ==
            tf_segment_sum(tf_reduce_sum_rows(scores_exp), partition)
    IN  tf_expand_dims(tf_gather(scores_exp_sum_per_partition, partition), 1)

segment_softmax(scores, partition) ==
    LET scores_exp == tf_exp(shifted_scores(scores, partition))
        probs == Elementwise(FracDiv, scores_exp, softmax_divisor(scores_exp, partition))
    IN  probs

segment_argmax(input, partition) ==
    LET num_partitions == tf_reduce_max_all(partition) + 1
        max_per_partition == tf_segment_max(tf_reduce_max_rows(input), partition)
        is_max == Elementwise(LAMBDA x, y : x = y, input,
                              tf_expand_dims(tf_gather(max_per_partition, partition), 1))
        is_max_count == tf_reduce_sum_all(tf_cast_bool(is_max))
        row_selected == tf_reduce_any_rows(is_max)
        row_indices == tf_squeeze(tf_where(row_selected))
        selected_rows_is_max == tf_gather(is_max, row_indices)
    IN  IF num_partitions # is_max_count
        THEN Failed("segment_argmax", "assertion_failed")
        ELSE IF Rank(selected_rows_is_max) < 2
        THEN \* tf.argmax(axis=1) of a vector: the dimension is out of range
             [fn |-> "segment_argmax", status |-> "argmax_dimension_out_of_range",
              value |-> <<row_indices>>]
        ELSE Ok("segment_argmax",
                <<row_indices, tf_argmax_rows(tf_cast_bool(selected_rows_is_max))>>)

Scores == -1..MaxScore

\* non-decreasing vectors of n ids
SortedIds(n) == { p \in [1..n -> 0..MaxId] : \A i \in 1..(n - 1) : p[i] <= p[i + 1] }

MatrixShapes ==
    { sh \in (1..MaxRows) \X (1..MaxCols) : sh[1] * sh[2] <= MaxCells }

\* [n, m] matrices with a sorted partition vector of n non-negative ids
SegmentInputs ==
    UNION { [ scores : { Tensor(sh, d) : d \in [1..(sh[1] * sh[2]) -> Scores] },
              partition : { Vector(p) : p \in SortedIds(sh[1]) } ] :
            sh \in MatrixShapes }

InitSegment ==
    /\ args \in SegmentInputs
    /\ pc = "ready"
    /\ result = Pending

SegmentSoftmax ==
    /\ pc = "ready"
    /\ result' = Ok("segment_softmax", <<segment_softmax(args.scores, args.partition)>>)
    /\ pc' = "done"
    /\ UNCHANGED args

SegmentArgmax ==
    /\ pc = "ready"
    /\ result' = segment_argmax(args.scores, args.partition)
    /\ pc' = "done"
    /\ UNCHANGED args

NextSegment == SegmentSoftmax \/ SegmentArgmax

SpecSegment == InitSegment /\ [][NextSegment]_vars

\* the ids that occur in the partition vector, and the cells of a group
GroupIds == { args.partition.data[i] : i \in 1..Len(args.partition.data) }

GroupCells(g) ==
    { c \in (0..(args.scores.shape[1] - 1)) \X (0..(args.scores.shape[2] - 1)) :
        args.partition.data[c[1] + 1] = g }

GroupMax(g) ==
    CHOOSE v \in { At(args.scores, c) : c \in GroupCells(g) } :
        \A c \in GroupCells(g) : At(args.scores, c) <= v

TiedCells(g) == { c \in GroupCells(g) : At(args.scores, c) = GroupMax(g) }

\* the sum of the outputs over all rows and columns of group g
GroupProbSum(probs, g) ==
    LET m == probs.shape[2]
        upto[k \in 0..Len(probs.data)] ==
            IF k = 0 THEN <<0, 1>>
            ELSE IF args.partition.data[((k - 1) \div m) + 1] = g
                 THEN FracAdd(upto[k - 1], probs.data[k])
                 ELSE upto[k - 1]
    IN  upto[Len(probs.data)]

\* C3: the outputs of segment_softmax summed over all rows and all columns
\* of any single partition group equal 1 (in exact arithmetic).
C3_SoftmaxGroupSumsToOne ==
    (pc = "done" /\ result.fn = "segment_softmax") =>
        LET probs == result.value[1]
        IN  /\ probs.shape = args.scores.shape
            /\ \A g \in GroupIds : GroupProbSum(probs, g) = <<1, 1>>

\* a group of two rows whose outputs sum to 1 jointly and not row by row
C3_Witness ==
    /\ pc = "done"
    /\ result.fn = "segment_softmax"
    /\ args.scores.shape = <<3, 2>>
    /\ args.partition.data = <<0, 2, 2>>
    /\ GroupProbSum(result.value[1], 2) = <<1, 1>>
    /\ FracSum(Row(result.value[1], 1)) # <<1, 1>>
    /\ FracSum(Row(result.value[1], 0)) = <<1, 1>>

\* C10: the value segment_softmax subtracts from every cell of a row is the
\* maximum over all cells of all rows of that row's group, so every shifted
\* score is <= 0 and each group has a shifted score equal to 0.
C10_ShiftIsGroupMax ==
    (pc = "done" /\ result.fn = "segment_softmax") =>
        LET shift == softmax_shift(args.scores, args.partition)
            shifted == shifted_scores(args.scores, args.partition)
            n == args.scores.shape[1]
        IN  /\ shift.shape = <<n, 1>>
            /\ \A i \in 1..n : shift.data[i] = GroupMax(args.partition.data[i])
            /\ shifted.shape = args.scores.shape
            /\ \A k \in 1..Len(shifted.data) : shifted.data[k] <= 0
            /\ \A g \in GroupIds : \E c \in GroupCells(g) : At(shifted, c) = 0
            /\ result.value[1] =
                   Elementwise(FracDiv, tf_exp(shifted),
                               softmax_divisor(tf_exp(shifted), args.partition))

\* a group of two rows whose row maxima differ, next to a one-row group
C10_Witness ==
    /\ pc = "done"
    /\ result.fn = "segment_softmax"
    /\ args.scores = Tensor(<<3, 2>>, <<-1, -1, 0, -1, -1, -1>>)
    /\ args.partition.data = <<0, 0, 2>>
    /\ softmax_shift(args.scores, args.partition).data = <<0, 0, -1>>
    /\ shifted_scores(args.scores, args.partition).data = <<-1, -1, 0, -1, 0, 0>>

\* C1: if the maximum of some group occurs in more than one cell of that
\* group, segment_argmax fails on its assertion, for every sorted partition
\* vector of non-negative ids (consecutive or not).
C1_TieFailsAssertion ==
    (/\ pc = "done"
     /\ result.fn = "segment_argmax"
     /\ \E g \in GroupIds : Cardinality(TiedCells(g)) > 1)
        => result.status = "assertion_failed"

\* position (1-based) of group id g among the ids in increasing order
GroupRank(g) == Cardinality({ h \in GroupIds : h <= g })

\* C2: when every group has exactly one cell equal to its maximum and the
\* assertion passes, segment_argmax returns one (row, column) pair per group
\* in increasing order of group id, the pair of the g-th group being the
\* coordinates of that group's maximum; for any number of groups, one included.
C2_ArgmaxPerGroup ==
    (/\ pc = "done"
     /\ result.fn = "segment_argmax"
     /\ \A g \in GroupIds : Cardinality(TiedCells(g)) = 1
     /\ result.status # "assertion_failed")
        => /\ result.status = "ok"
           /\ result.value[1].shape = <<Cardinality(GroupIds)>>
           /\ result.value[2].shape = <<Cardinality(GroupIds)>>
           /\ \A g \in GroupIds :
                  LET r == result.value[1].data[GroupRank(g)]
                      c == result.value[2].data[GroupRank(g)]
                  IN  /\ args.partition.data[r + 1] = g
                      /\ At(args.scores, <<r, c>>) = GroupMax(g)

=============================================================================
